---- MODULE Spec2Model ----
(***************************************************************************)
(* LCache-go: the LRU store engine (store/lru.go), the container/list and  *)
(* sync.RWMutex it is built on, and the Cache facade (cache.go).           *)
(***************************************************************************)
EXTENDS Integers, Sequences, FiniteSets, TLC

(***************************************************************************)
(* Bounds of the model.                                                    *)
(***************************************************************************)
\* list elements of one key that can be referenced at one time: the indexed
\* one and the stale ones a Get or a cleared ring still points to
MaxSlots == 2
\* the clock runs from 0 to MaxTime
MaxTime == 2
\* facade Gets counted in one run
MaxCount == 2

(***************************************************************************)
(* Inputs.                                                                 *)
(***************************************************************************)
Keys == {"a", "b", "c"}
NoKey == "-"

\* A store.Value is a ByteView or the nil interface value.
ByteView(bytes) == [nil |-> FALSE, b |-> bytes]
Nil == [nil |-> TRUE, b |-> << >>]

\* ByteView.Len: len(b.b)
ValLen(v) == Len(v.b)

Bytes(n) == [i \in 1..n |-> 0]
V1 == ByteView(<<1>>)
V2 == ByteView(<<2, 2>>)
V5 == ByteView(Bytes(5))
V10 == ByteView(Bytes(10))

(***************************************************************************)
(* container/list: a ring of elements around the sentinel Root.            *)
(* A list is [next, prev, owned, len]; NilE is the nil *Element.           *)
(***************************************************************************)
Root == <<"root", 0>>
NilE == <<"nil", 0>>
Elems == Keys \X (1..MaxSlots)
Nodes == {Root} \cup Elems

\* list.New() / (*List).Init(): only the sentinel and len are reset.
ListInit(ls) ==
    [ls EXCEPT !.next[Root] = Root, !.prev[Root] = Root, !.len = 0]

ListNew ==
    [next  |-> [n \in Nodes |-> IF n = Root THEN Root ELSE NilE],
     prev  |-> [n \in Nodes |-> IF n = Root THEN Root ELSE NilE],
     owned |-> [e \in Elems |-> FALSE],
     len   |-> 0]

\* (*List).insert(e, at) for PushFront: at = &l.root
ListPushFront(ls, e) ==
    LET first == ls.next[Root]
        nx == [ls.next EXCEPT ![e] = first, ![Root] = e]
        pv == [[ls.prev EXCEPT ![e] = Root] EXCEPT ![first] = e]
    IN [next |-> nx, prev |-> pv,
        owned |-> [ls.owned EXCEPT ![e] = TRUE], len |-> ls.len + 1]

\* (*List).Remove(e): unlinks e only when e.list == l
ListRemove(ls, e) ==
    IF ~ls.owned[e] THEN ls
    ELSE LET p == ls.prev[e]
             n == ls.next[e]
             nx == [ls.next EXCEPT ![p] = n]
             pv == [ls.prev EXCEPT ![n] = p]
         IN [next |-> [nx EXCEPT ![e] = NilE],
             prev |-> [pv EXCEPT ![e] = NilE],
             owned |-> [ls.owned EXCEPT ![e] = FALSE],
             len |-> ls.len - 1]

\* (*List).move(e, at) with at = &l.root; len is not touched
ListMove(ls, e) ==
    LET n1 == [ls.next EXCEPT ![ls.prev[e]] = ls.next[e]]
        p1 == [ls.prev EXCEPT ![ls.next[e]] = ls.prev[e]]
        p2 == [p1 EXCEPT ![e] = Root]
        n2 == [n1 EXCEPT ![e] = n1[Root]]
        n3 == [n2 EXCEPT ![Root] = e]
        p3 == [p2 EXCEPT ![n3[e]] = e]
    IN [ls EXCEPT !.next = n3, !.prev = p3]

\* (*List).MoveToFront(e)
ListMoveToFront(ls, e) ==
    IF ~ls.owned[e] \/ ls.next[Root] = e THEN ls ELSE ListMove(ls, e)

\* (*List).Back()
ListBack(ls) == IF ls.len = 0 THEN NilE ELSE ls.prev[Root]

\* The elements linked in the ring, front to back (following next from Root).
RECURSIVE Chain(_, _, _)
Chain(ls, n, fuel) ==
    IF n = Root \/ n = NilE \/ fuel = 0 THEN << >>
    ELSE <<n>> \o Chain(ls, ls.next[n], fuel - 1)

Linked(ls) == Chain(ls, ls.next[Root], Cardinality(Elems))

(***************************************************************************)
(* lRUStore: [list, entry, items, expires, maxBytes, usedBytes, onEvicted, *)
(* fault].  entry[e] is the *lruEntry held in element e's Value; items and *)
(* expires are Go maps (functions on the set of keys present).  fault      *)
(* records a panic raised inside an operation ("" when there is none).     *)
(***************************************************************************)
NoEntry == [key |-> NoKey, value |-> Nil]

MapDelete(m, k) == [x \in (DOMAIN m) \ {k} |-> m[x]]
MapPut(m, k, v) == [x \in (DOMAIN m) \cup {k} |-> IF x = k THEN v ELSE m[x]]
EmptyMap == [x \in {} |-> 0]
Range(m) == {m[x] : x \in DOMAIN m}

\* newLRUStore(opt): opt.OnEvicted is not copied into the store; the ticker
\* is created and no goroutine is started
newLRUStore(opt) ==
    [list      |-> ListNew,
     closeCh   |-> "open",
     ticker    |-> "running",
     entry     |-> [e \in Elems |-> NoEntry],
     items     |-> EmptyMap,
     expires   |-> EmptyMap,
     maxBytes  |-> opt.MaxBytes,
     usedBytes |-> 0,
     onEvicted |-> FALSE,
     fault     |-> ""]

\* Elements the program can still reach: from the sentinel, the key index and
\* the element pointers held by callers, through next/prev.
RECURSIVE Reach(_, _)
Reach(ls, S) ==
    LET T == (S \cup {ls.next[n] : n \in S} \cup {ls.prev[n] : n \in S}) \ {NilE}
    IN IF T = S THEN S ELSE Reach(ls, T)

Live(l, held) == Reach(l.list, ({Root} \cup Range(l.items) \cup held) \ {NilE})

\* Unreachable elements are garbage: their memory is what a later
\* allocation (&list.Element{}, &lruEntry{}) starts from.
Collect(l, held) ==
    LET live == Live(l, held)
    IN [l EXCEPT
          !.list.next  = [n \in Nodes |-> IF n \in live THEN l.list.next[n] ELSE NilE],
          !.list.prev  = [n \in Nodes |-> IF n \in live THEN l.list.prev[n] ELSE NilE],
          !.list.owned = [e \in Elems |-> IF e \in live THEN l.list.owned[e] ELSE FALSE],
          !.entry      = [e \in Elems |-> IF e \in live THEN l.entry[e] ELSE NoEntry]]

\* &list.Element{} for an entry of key: memory nothing refers to
FreeElems(l, held, key) == {e \in Elems \ Live(l, held) : e[1] = key}
NewElem(l, held, key) ==
    CHOOSE e \in FreeElems(l, held, key) : \A f \in FreeElems(l, held, key) : e[2] <= f[2]

\* evict, lines 152-159: one expired key of the range over l.expires
ExpireOne(l, key) ==
    IF key \in DOMAIN l.items
    THEN LET elem == l.items[key]
         IN [l EXCEPT !.list = ListRemove(l.list, elem),
                      !.items = MapDelete(l.items, key),
                      !.usedBytes = @ - ValLen(l.entry[elem].value),
                      !.expires = MapDelete(l.expires, key)]
    ELSE [l EXCEPT !.expires = MapDelete(l.expires, key)]

\* evict, lines 150-161: the range visits the expired keys in any order
RECURSIVE ExpireAll(_, _)
ExpireAll(l, S) ==
    IF S = {} THEN {l}
    ELSE UNION {ExpireAll(ExpireOne(l, k), S \ {k}) : k \in S}

\* evict, line 151: expireTime.Before(now)
Expired(l, now) == {k \in DOMAIN l.expires : l.expires[k] < now}

ExpirationPass(l, now) == ExpireAll(l, Expired(l, now))

\* a capacity pass that spares the last entry
OverBudgetOnce(l) == l.maxBytes > 0 /\ l.usedBytes > l.maxBytes /\ l.list.len > 1

\* evict, line 164
OverBudget(l) == l.maxBytes > 0 /\ l.usedBytes > l.maxBytes /\ l.list.len > 0

\* evict, lines 162-177.  list.Back() is root.prev; when the ring holds only
\* the sentinel its Value is nil and the type assertion of line 169 panics.
RECURSIVE CapacityPass(_)
CapacityPass(l) ==
    IF l.fault = "" /\ OverBudget(l)
    THEN LET elem == ListBack(l.list)
         IN IF elem = NilE THEN l
            ELSE IF elem = Root
            THEN [l EXCEPT !.fault = "panic: interface conversion: interface is nil"]
            ELSE LET entry == l.entry[elem]
                 IN CapacityPass(
                      [l EXCEPT !.list = ListRemove(l.list, elem),
                                !.items = MapDelete(l.items, entry.key),
                                !.usedBytes = @ - ValLen(entry.value),
                                !.expires = MapDelete(l.expires, entry.key)])
    ELSE l

\* lRUStore.evict: the set of stores it can leave (one per visiting order)
evict(l, now) == {CapacityPass(x) : x \in ExpirationPass(l, now)}

\* a Set of an existing key that stamps the expiration table whatever the TTL
SetExistingStamp(l, key, value, expiration, now) ==
    LET elem == l.items[key]
        old == l.entry[elem]
    IN [l EXCEPT !.usedBytes = @ - ValLen(old.value) + ValLen(value),
                 !.entry[elem].value = value,
                 !.list = ListMoveToFront(l.list, elem),
                 !.expires = MapPut(l.expires, key, now + expiration)]

\* SetWithExpiration, lines 74-83: the key exists
SetExisting(l, key, value, expiration, now) ==
    LET elem == l.items[key]
        old == l.entry[elem]
    IN [l EXCEPT !.usedBytes = @ - ValLen(old.value) + ValLen(value),
                 !.entry[elem].value = value,
                 !.list = ListMoveToFront(l.list, elem),
                 !.expires = IF expiration > 0
                             THEN MapPut(l.expires, key, now + expiration)
                             ELSE l.expires]

\* SetWithExpiration, lines 84-93: a new entry in the fresh element elem
SetNew(l, key, value, expiration, now, elem) ==
    [l EXCEPT !.entry[elem] = [key |-> key, value |-> value],
              !.list = ListPushFront(l.list, elem),
              !.items = MapPut(l.items, key, elem),
              !.usedBytes = @ + ValLen(value),
              !.expires = IF expiration > 0
                          THEN MapPut(l.expires, key, now + expiration)
                          ELSE l.expires]

\* SetWithExpiration, lines 74-94, for a non-nil value
SetWithExpirationLocked(l, key, value, expiration, now, elem) ==
    evict(IF key \in DOMAIN l.items
          THEN SetExisting(l, key, value, expiration, now)
          ELSE SetNew(l, key, value, expiration, now, elem), now)

\* a Delete that leaves the counter alone
DeleteKeepBytes(l, key) ==
    IF key \in DOMAIN l.items
    THEN [l EXCEPT !.list = ListRemove(l.list, l.items[key]),
                   !.items = MapDelete(l.items, key),
                   !.expires = MapDelete(l.expires, key)]
    ELSE l

\* Delete, lines 102-110
DeleteLocked(l, key) ==
    IF key \in DOMAIN l.items
    THEN LET elem == l.items[key]
         IN [l EXCEPT !.list = ListRemove(l.list, elem),
                      !.items = MapDelete(l.items, key),
                      !.usedBytes = @ - ValLen(l.entry[elem].value),
                      !.expires = MapDelete(l.expires, key)]
    ELSE l

\* Clear, lines 117-121: the callback invocations, one per indexed key
ClearCallbacks(l) ==
    IF l.onEvicted
    THEN {<<k, l.entry[l.items[k]].value>> : k \in DOMAIN l.items}
    ELSE {}

\* a Clear that keeps the expiration table
ClearKeepExpires(l) ==
    [l EXCEPT !.list = ListInit(l.list),
              !.items = EmptyMap,
              !.usedBytes = 0]

\* Clear, lines 123-126
ClearLocked(l) ==
    [l EXCEPT !.list = ListInit(l.list),
              !.items = EmptyMap,
              !.expires = EmptyMap,
              !.usedBytes = 0]

(***************************************************************************)
(* sync.RWMutex: [w, readerCount, readerWait, readerSem, writerSem].       *)
(***************************************************************************)
rwmutexMaxReaders == 1073741824

NewRWMutex ==
    [w |-> FALSE, readerCount |-> 0, readerWait |-> 0, readerSem |-> 0, writerSem |-> 0]

\* RLock: readerCount.Add(1) < 0 means a writer is pending: wait on readerSem
RLockAdd(m) == [m EXCEPT !.readerCount = @ + 1]
RLockBlocks(m) == m.readerCount + 1 < 0

\* RUnlock -> rUnlockSlow: fatal("sync: RUnlock of unlocked RWMutex")
RUnlockFatal(m) ==
    LET r == m.readerCount - 1
    IN r < 0 /\ (r + 1 = 0 \/ r + 1 = -rwmutexMaxReaders)

\* RUnlock: the last reader a pending writer waits for releases writerSem
RUnlockSub(m) ==
    LET r == m.readerCount - 1
    IN IF r >= 0 THEN [m EXCEPT !.readerCount = r]
       ELSE [m EXCEPT !.readerCount = r,
                      !.readerWait = @ - 1,
                      !.writerSem = IF m.readerWait - 1 = 0 THEN @ + 1 ELSE @]

\* Lock, after rw.w.Lock(): announce the writer, count the readers to wait for
LockAnnounce(m) ==
    LET r == m.readerCount
    IN [m EXCEPT !.w = TRUE,
                 !.readerCount = @ - rwmutexMaxReaders,
                 !.readerWait = IF r # 0 THEN @ + r ELSE @]
LockBlocks(m) == m.readerCount # 0 /\ m.readerWait + m.readerCount # 0

\* Unlock: fatal("sync: Unlock of unlocked RWMutex") when no writer is announced
UnlockFatal(m) == m.readerCount + rwmutexMaxReaders >= rwmutexMaxReaders
UnlockAdd(m) ==
    LET r == m.readerCount + rwmutexMaxReaders
    IN [m EXCEPT !.readerCount = r,
                 !.readerSem = IF r > 0 THEN @ + r ELSE @,
                 !.w = FALSE]

(***************************************************************************)
(* State.                                                                  *)
(***************************************************************************)
VARIABLES
    l,        \* the lRUStore
    mu,       \* lRUStore.mu
    now,      \* time.Now()
    pc,       \* per goroutine: the call in progress and where it stands
    crashed,  \* "" or the fatal error / unrecovered panic that ended the process
    touched,  \* history: the live keys, most recently touched first
    opt,      \* the CacheOptions / store.Options the program was configured with
    c,        \* the Cache
    cmu,      \* Cache.mu
    h         \* history of the facade: stores built, Close returned, Gets counted

outer == <<opt, c, cmu, h>>
vars == <<l, mu, now, pc, crashed, touched, opt, c, cmu, h>>

Callers == {"p1", "p2", "p3"}
Sweeper == "sweeper"
Procs == Callers \cup {Sweeper}

\* What an operation returns (ok, value, n) and, as history, what its critical
\* section removed: expired by the expiration pass, victims of the capacity
\* pass or of Clear, order = the touch order the capacity pass started from,
\* callbacks = the onEvicted invocations, before = the expiration table the
\* critical section started from.
NoStats == [initialized |-> FALSE, closed |-> FALSE, hits |-> 0, misses |-> 0,
            size |-> 0, hit_rate |-> <<0, 1>>]

NoRes == [ok |-> FALSE, value |-> Nil, n |-> 0, stats |-> NoStats,
          expired |-> {}, victims |-> {}, order |-> << >>, callbacks |-> {},
          before |-> EmptyMap]

\* fn: the facade function running ("" for a direct call of the engine), op:
\* the engine operation, at: where it stands; key, value, ttl: the arguments;
\* elem: Get's local elem.  History: alone = no other caller has started an
\* operation since this one's critical section; expect = what a Get issued
\* right after a lone Set or Clear is to return ("" none, "hit" the value
\* just set, "miss"); late = the call started after the facade's Close
\* returned; inst = the store instance the call was delegated to.
Idle == [fn |-> "", op |-> "none", at |-> "idle",
         key |-> NoKey, value |-> Nil, ttl |-> 0,
         elem |-> NilE, res |-> NoRes, alone |-> FALSE, expect |-> "",
         late |-> FALSE, inst |-> 0]

Held(pcs) == {pcs[p].elem : p \in DOMAIN pcs} \ {NilE}

\* store.Options; OnEvicted is TRUE when a callback is configured
Options(maxBytes, onEvicted) == [MaxBytes |-> maxBytes, OnEvicted |-> onEvicted]

\* NewCache(opts)
NewCache(opts) ==
    [opts |-> opts, store |-> 0, hits |-> 0, misses |-> 0,
     initialized |-> 0, closed |-> 0]

\* built: the stores constructed; closes: the Close calls that made the
\* open-to-closed transition; closeReturned: a Close has returned;
\* cleared: a Clear has reset the counters; gets, found: the Gets that have
\* returned and those among them that returned found = true
NoHistory == [built |-> 0, closes |-> 0, closeReturned |-> FALSE,
              cleared |-> FALSE, gets |-> 0, found |-> 0]

\* An engine built by newLRUStore(o), o among options, and called directly.
InitWith(options) ==
    /\ opt \in options
    /\ l = newLRUStore(opt)
    /\ mu = NewRWMutex
    /\ now = 0
    /\ pc = [p \in Procs |-> Idle]
    /\ crashed = ""
    /\ touched = << >>
    /\ c = NewCache(opt)
    /\ cmu = NewRWMutex
    /\ h = NoHistory

Running == crashed = ""

\* the history of touches: key moves to the front, removed keys drop out
SeqWithout(s, k) == SelectSeq(s, LAMBDA x : x # k)
Touch(s, k) == <<k>> \o SeqWithout(s, k)
Surviving(s, items) == SelectSeq(s, LAMBDA x : x \in DOMAIN items)

Pairs(x) == {<<k, x.entry[x.items[k]].value>> : k \in DOMAIN x.items}

OthersIdle(p) == \A q \in Callers \ {p} : pc[q].at = "idle"

\* p starts the call rec; every other caller's operation is no longer alone
Begin(p, rec) ==
    [q \in Procs |-> IF q = p THEN rec
                     ELSE [pc[q] EXCEPT !.alone = FALSE, !.expect = ""]]

\* where an engine operation returns to: its direct caller or the facade
Returned(rec) ==
    IF rec.fn = "" THEN Idle ELSE [rec EXCEPT !.at = "back", !.elem = NilE]

(***************************************************************************)
(* sync.RWMutex steps on the engine's lock.                                *)
(***************************************************************************)
\* l.mu.Lock(): Get 52, SetWithExpiration 71, Delete 99, Clear 114, CleanupStore 186
Lock(p) ==
    /\ Running /\ pc[p].at = "lock" /\ ~mu.w
    /\ mu' = LockAnnounce(mu)
    /\ pc' = [pc EXCEPT ![p].at = IF LockBlocks(mu) THEN "lockwait" ELSE "body"]
    /\ UNCHANGED <<l, now, crashed, touched, outer>>

\* the writer sleeping on writerSem is woken by the last reader
LockWake(p) ==
    /\ Running /\ pc[p].at = "lockwait" /\ mu.writerSem > 0
    /\ mu' = [mu EXCEPT !.writerSem = @ - 1]
    /\ pc' = [pc EXCEPT ![p].at = "body"]
    /\ UNCHANGED <<l, now, crashed, touched, outer>>

\* l.mu.Unlock(): Get 56, deferred in SetWithExpiration/Delete/Clear, CleanupStore 188
Unlock(p) ==
    /\ Running /\ pc[p].at = "unlock"
    /\ IF UnlockFatal(mu)
       THEN /\ crashed' = "fatal error: sync: Unlock of unlocked RWMutex"
            /\ UNCHANGED <<mu, pc>>
       ELSE /\ mu' = UnlockAdd(mu)
            /\ pc' = [pc EXCEPT ![p] =
                        IF pc[p].op = "CleanupStore"
                        THEN [Idle EXCEPT !.op = "CleanupStore", !.at = "select"]
                        ELSE Returned(@)]
            /\ UNCHANGED crashed
    /\ UNCHANGED <<l, now, touched, outer>>

\* Len, line 130: l.mu.RLock()
RLock(p) ==
    /\ Running /\ pc[p].op = "Len" /\ pc[p].at = "rlock"
    /\ mu' = RLockAdd(mu)
    /\ pc' = [pc EXCEPT ![p].at = IF RLockBlocks(mu) THEN "rlockwait" ELSE "rbody"]
    /\ UNCHANGED <<l, now, crashed, touched, outer>>

\* the reader sleeping on readerSem is woken by the writer's Unlock
RLockWake(p) ==
    /\ Running /\ pc[p].at = "rlockwait" /\ mu.readerSem > 0
    /\ mu' = [mu EXCEPT !.readerSem = @ - 1]
    /\ pc' = [pc EXCEPT ![p].at = "rbody"]
    /\ UNCHANGED <<l, now, crashed, touched, outer>>

\* Get lines 45 and 49, Len line 131 (deferred): l.mu.RUnlock()
RUnlock(p) ==
    /\ Running /\ pc[p].op \in {"Get", "Len"} /\ pc[p].at = "runlock"
    /\ IF RUnlockFatal(mu)
       THEN /\ crashed' = "fatal error: sync: RUnlock of unlocked RWMutex"
            /\ UNCHANGED <<mu, pc>>
       ELSE /\ mu' = RUnlockSub(mu)
            /\ pc' = [pc EXCEPT ![p] =
                        IF pc[p].op = "Get" /\ pc[p].res.ok
                        THEN [@ EXCEPT !.at = "lock"] ELSE Returned(@)]
            /\ UNCHANGED crashed
    /\ UNCHANGED <<l, now, touched, outer>>

(***************************************************************************)
(* Direct calls of the engine's operations.  An operation's arguments are  *)
(* drawn where it first reads them, inside its critical section.           *)
(***************************************************************************)
CallGet(p) ==
    /\ Running /\ pc[p].at = "idle"
    /\ pc' = Begin(p, [Idle EXCEPT !.op = "Get", !.at = "read"])
    /\ UNCHANGED <<l, mu, now, crashed, touched, outer>>

\* Set / SetWithExpiration (71), Delete (99) or Clear (114) is called and
\* reaches its l.mu.Lock()
CallWrite(p) ==
    /\ Running /\ pc[p].at = "idle"
    /\ pc' = Begin(p, [Idle EXCEPT !.op = "write", !.at = "lock"])
    /\ UNCHANGED <<l, mu, now, crashed, touched, outer>>

CallLen(p) ==
    /\ Running /\ pc[p].at = "idle"
    /\ pc' = Begin(p, [Idle EXCEPT !.op = "Len", !.at = "rlock"])
    /\ UNCHANGED <<l, mu, now, crashed, touched, outer>>

\* the caller's Set(key, value) returns and its next call is Get(key)
GetAfterSet(p) ==
    /\ Running /\ pc[p].at = "unlock" /\ pc[p].op = "Set" /\ pc[p].fn = ""
    /\ ~UnlockFatal(mu)
    /\ mu' = UnlockAdd(mu)
    /\ pc' = Begin(p, [Idle EXCEPT !.op = "Get", !.at = "read",
                                   !.key = pc[p].key, !.value = pc[p].value,
                                   !.expect = IF /\ pc[p].alone /\ OthersIdle(p)
                                                 /\ pc[p].res.victims = {}
                                              THEN "hit" ELSE ""])
    /\ UNCHANGED <<l, now, crashed, touched, outer>>

\* the caller's Clear() returns and its next call is Get(key), key live before
GetAfterClear(p, key) ==
    /\ Running /\ pc[p].at = "unlock" /\ pc[p].op = "Clear" /\ pc[p].fn = ""
    /\ key \in {kv[1] : kv \in pc[p].res.victims}
    /\ ~UnlockFatal(mu)
    /\ mu' = UnlockAdd(mu)
    /\ pc' = Begin(p, [Idle EXCEPT !.op = "Get", !.at = "read", !.key = key,
                                   !.expect = IF pc[p].alone /\ OthersIdle(p)
                                              THEN "miss" ELSE ""])
    /\ UNCHANGED <<l, now, crashed, touched, outer>>

\* go l.CleanupStore(): the goroutine waits in its select
GoCleanupStore ==
    /\ Running /\ pc[Sweeper].at = "idle"
    /\ pc' = [pc EXCEPT ![Sweeper] = [Idle EXCEPT !.op = "CleanupStore", !.at = "select"]]
    /\ UNCHANGED <<l, mu, now, crashed, touched, outer>>

\* CleanupStore, line 185: the ticker fires
CleanupTick ==
    /\ Running /\ pc[Sweeper].at = "select" /\ l.ticker = "running"
    /\ pc' = [pc EXCEPT ![Sweeper].at = "lock"]
    /\ UNCHANGED <<l, mu, now, crashed, touched, outer>>

\* the clock advances
Tick ==
    /\ Running /\ now < MaxTime
    /\ now' = now + 1
    /\ UNCHANGED <<l, mu, pc, crashed, touched, outer>>

(***************************************************************************)
(* The engine's operations.                                                *)
(***************************************************************************)
\* a goroutine is inside a critical section that writes l.items
MapWriter(q) == pc[q].op \in {"write", "Set", "Delete", "Clear", "CleanupStore"}
                /\ pc[q].at = "body"

\* Get, lines 42-48: l.mu.RLocker() only builds a Locker and locks nothing;
\* the index and the entry are read without the lock
GetRead(p, key) ==
    /\ Running /\ pc[p].op = "Get" /\ pc[p].at = "read"
    /\ pc[p].key \in {NoKey, key}
    /\ pc' = [pc EXCEPT ![p] =
                IF key \in DOMAIN l.items
                THEN [@ EXCEPT !.at = "runlock", !.key = key,
                               !.elem = l.items[key],
                               !.res.ok = TRUE,
                               !.res.value = l.entry[l.items[key]].value]
                ELSE [@ EXCEPT !.at = "runlock", !.key = key]]
    /\ UNCHANGED <<l, mu, now, crashed, touched, outer>>

\* the unlocked read of line 43 while another goroutine writes the map
GetReadRace(p) ==
    /\ Running /\ pc[p].op = "Get" /\ pc[p].at = "read"
    /\ \E q \in Procs \ {p} : MapWriter(q)
    /\ crashed' = "fatal error: concurrent map read and map write"
    /\ UNCHANGED <<l, mu, now, pc, touched, outer>>

\* Get, lines 53-55
GetMove(p) ==
    /\ Running /\ pc[p].op = "Get" /\ pc[p].at = "body"
    /\ pc' = [pc EXCEPT ![p].at = "unlock", ![p].elem = NilE]
    /\ LET moved == IF pc[p].key \in DOMAIN l.items
                    THEN [l EXCEPT !.list = ListMoveToFront(l.list, pc[p].elem)]
                    ELSE l
       IN /\ l' = Collect(moved, Held(pc'))
          /\ touched' = IF pc[p].key \in DOMAIN l.items
                        THEN Touch(touched, pc[p].key) ELSE touched
    /\ UNCHANGED <<mu, now, crashed, outer>>

\* the arguments a call running for the facade was given
Args(p, key, value, ttl) ==
    pc[p].fn = "" \/ (pc[p].key = key /\ pc[p].value = value /\ pc[p].ttl = ttl)

\* SetWithExpiration, lines 74-94, for a non-nil value
SetBody(p, key, value, ttl) ==
    /\ Running /\ pc[p].op \in {"write", "Set"} /\ pc[p].at = "body" /\ value # Nil
    /\ Args(p, key, value, ttl)
    /\ key \in DOMAIN l.items \/ FreeElems(l, Held(pc), key) # {}
    /\ LET elem == IF FreeElems(l, Held(pc), key) # {}
                   THEN NewElem(l, Held(pc), key) ELSE NilE
           stored == IF key \in DOMAIN l.items
                     THEN SetExisting(l, key, value, ttl, now)
                     ELSE SetNew(l, key, value, ttl, now, elem)
       IN \E x \in ExpirationPass(stored, now) :
            \E y \in SetWithExpirationLocked(l, key, value, ttl, now, elem) :
              /\ y = CapacityPass(x)
              /\ pc' = [pc EXCEPT ![p] =
                          [@ EXCEPT !.op = "Set", !.at = "unlock",
                                    !.key = key, !.value = value, !.ttl = ttl,
                                    !.alone = OthersIdle(p),
                                    !.res.before = l.expires,
                                    !.res.expired = Pairs(stored) \ Pairs(x),
                                    !.res.victims = Pairs(x) \ Pairs(y),
                                    !.res.order = Surviving(Touch(touched, key), x.items)]]
              /\ l' = Collect(y, Held(pc'))
              /\ touched' = Surviving(Touch(touched, key), y.items)
              /\ crashed' = y.fault
    /\ UNCHANGED <<mu, now, outer>>

\* Delete, lines 102-110; SetWithExpiration with a nil value (line 67) is
\* Delete(key) with its result dropped
DeleteBody(p, key, viaSet) ==
    /\ Running /\ pc[p].op \in {"write", "Delete"} /\ pc[p].at = "body"
    /\ pc[p].fn = "" \/ (pc[p].key = key /\ ~viaSet)
    /\ pc' = [pc EXCEPT ![p] =
                [@ EXCEPT !.op = "Delete", !.at = "unlock", !.key = key,
                          !.res.before = l.expires,
                          !.res.ok = ~viaSet /\ key \in DOMAIN l.items]]
    /\ l' = Collect(DeleteLocked(l, key), Held(pc'))
    /\ touched' = SeqWithout(touched, key)
    /\ UNCHANGED <<mu, now, crashed, outer>>

\* Clear, lines 117-126
ClearBody(p) ==
    /\ Running /\ pc[p].op \in {"write", "Clear"} /\ pc[p].at = "body"
    /\ pc' = [pc EXCEPT ![p] =
                [@ EXCEPT !.op = "Clear", !.at = "unlock",
                          !.alone = OthersIdle(p),
                          !.res.before = l.expires,
                          !.res.victims = Pairs(l),
                          !.res.callbacks = ClearCallbacks(l)]]
    /\ l' = Collect(ClearLocked(l), Held(pc'))
    /\ touched' = << >>
    /\ UNCHANGED <<mu, now, crashed, outer>>

\* CleanupStore, line 187
CleanupBody(p) ==
    /\ Running /\ pc[p].op = "CleanupStore" /\ pc[p].at = "body"
    /\ \E x \in ExpirationPass(l, now) :
         \E y \in evict(l, now) :
           /\ y = CapacityPass(x)
           /\ pc' = [pc EXCEPT ![p] =
                       [@ EXCEPT !.at = "unlock",
                                 !.res.before = l.expires,
                                 !.res.expired = Pairs(l) \ Pairs(x),
                                 !.res.victims = Pairs(x) \ Pairs(y),
                                 !.res.order = Surviving(touched, x.items)]]
           /\ l' = Collect(y, Held(pc'))
           /\ touched' = Surviving(touched, y.items)
           /\ crashed' = y.fault
    /\ UNCHANGED <<mu, now, outer>>

\* Len, line 132
LenBody(p) ==
    /\ Running /\ pc[p].op = "Len" /\ pc[p].at = "rbody"
    /\ pc' = [pc EXCEPT ![p].at = "runlock", ![p].res.n = l.list.len]
    /\ UNCHANGED <<l, mu, now, crashed, touched, outer>>

(***************************************************************************)
(* The Cache facade (cache.go).                                            *)
(***************************************************************************)
\* ensureCacheInitialized, lines 59-62: the options handed to store.NewStore
\* carry MaxBytes and CleanupInterval, not OnEvicted
StoreOptions(opts) == Options(opts.MaxBytes, FALSE)

\* never taken for closed
IsClosedNever(cache) == FALSE

\* line 69 (and 129, 147, 163): atomic.LoadInt32(&c.closed) == 1
IsClosed(cache) == cache.closed = 1

\* the lock is taken and the store built whatever the flag says
NeedsInitAlways(cache) == TRUE

\* ensureCacheInitialized, line 58: the second check, under c.mu
NeedsInit(cache) == cache.initialized = 0

\* Stats, lines 202-207: hits / (hits + misses) as a fraction, 0.0 without requests
HitRate(hits, misses) ==
    IF hits + misses > 0 THEN <<hits, hits + misses>> ELSE <<0, 1>>

\* the functions that go through OpenedAndInitialized
Initializing == {"Get", "Add", "AddWithExpiration"}
\* the functions that only look at the two flags
Checking == {"Delete", "Clear", "Len", "Stats"}

\* where a function stands once its entry check has let it through
After(fn) ==
    CASE fn \in {"Get", "Delete", "Len", "Stats"} -> "crlock"
      [] fn = "Clear" -> "clock"
      [] fn = "Add" -> "deleg"
      [] fn = "AddWithExpiration" -> "until"

\* a facade function is called
CallFacade(p, fn) ==
    /\ Running /\ pc[p].at = "idle"
    /\ fn = "Get" => c.hits + c.misses + Cardinality({q \in Callers : pc[q].fn = "Get"}) < MaxCount
    /\ pc' = Begin(p, [Idle EXCEPT !.fn = fn, !.late = h.closeReturned,
                                   !.at = CASE fn = "Close" -> "cas"
                                            [] fn = "Stats" -> "stats"
                                            [] OTHER -> "open?"])
    /\ UNCHANGED <<l, mu, now, crashed, touched, outer>>

\* OpenedAndInitialized, lines 69-72, with the caller's failure branch
\* (Get, lines 79-80: the miss is counted)
OpenedAndInitialized(p) ==
    /\ Running /\ pc[p].at = "open?" /\ pc[p].fn \in Initializing
    /\ IF IsClosed(c)
       THEN /\ pc' = [pc EXCEPT ![p].at = "ret",
                                ![p].res.value = IF pc[p].fn = "Get"
                                                 THEN ByteView(<< >>) ELSE Nil]
            /\ c' = IF pc[p].fn = "Get" THEN [c EXCEPT !.misses = @ + 1] ELSE c
       ELSE /\ pc' = [pc EXCEPT ![p].at = "init?"]
            /\ UNCHANGED c
    /\ UNCHANGED <<l, mu, now, crashed, touched, opt, cmu, h>>

\* Delete 129, Clear 147, Len 163: closed or not initialized, return at once
ClosedOrUninitialized(p) ==
    /\ Running /\ pc[p].at = "open?" /\ pc[p].fn \in Checking
    /\ pc' = [pc EXCEPT ![p].at = IF IsClosed(c) \/ c.initialized = 0
                                  THEN "ret" ELSE After(pc[p].fn)]
    /\ UNCHANGED <<l, mu, now, crashed, touched, outer>>

\* ensureCacheInitialized, line 51: the check without the lock
InitFastPath(p) ==
    /\ Running /\ pc[p].at = "init?"
    /\ pc' = [pc EXCEPT ![p].at = IF c.initialized = 1
                                  THEN After(pc[p].fn) ELSE "initlock"]
    /\ UNCHANGED <<l, mu, now, crashed, touched, outer>>

\* c.mu.Lock(): ensureCacheInitialized 55, Clear 152, Close 181
CLock(p) ==
    /\ Running /\ pc[p].at \in {"initlock", "clock", "closelock"} /\ ~cmu.w
    /\ cmu' = LockAnnounce(cmu)
    /\ pc' = [pc EXCEPT ![p].at =
                CASE LockBlocks(cmu) -> "cwait"
                  [] pc[p].at = "initlock" -> "initbody"
                  [] pc[p].at = "clock" -> "deleg"
                  [] OTHER -> "closebody"]
    /\ UNCHANGED <<l, mu, now, crashed, touched, opt, c, h>>

CLockWake(p) ==
    /\ Running /\ pc[p].at = "cwait" /\ cmu.writerSem > 0
    /\ cmu' = [cmu EXCEPT !.writerSem = @ - 1]
    /\ pc' = [pc EXCEPT ![p].at =
                CASE pc[p].fn \in Initializing -> "initbody"
                  [] pc[p].fn = "Clear" -> "deleg"
                  [] OTHER -> "closebody"]
    /\ UNCHANGED <<l, mu, now, crashed, touched, opt, c, h>>

\* ensureCacheInitialized, lines 58-66 and the deferred Unlock
InitBody(p) ==
    /\ Running /\ pc[p].at = "initbody"
    /\ pc' = [pc EXCEPT ![p].at = After(pc[p].fn)]
    /\ cmu' = UnlockAdd(cmu)
    /\ IF NeedsInit(c)
       THEN /\ c' = [c EXCEPT !.store = h.built + 1, !.initialized = 1]
            /\ h' = [h EXCEPT !.built = @ + 1]
            /\ l' = newLRUStore(StoreOptions(c.opts))
            /\ mu' = NewRWMutex
            /\ touched' = << >>
       ELSE UNCHANGED <<c, h, l, mu, touched>>
    /\ UNCHANGED <<now, crashed, opt>>

\* c.mu.RLock(): Get 83, Delete 134, Len 168
CRLock(p) ==
    /\ Running /\ pc[p].at = "crlock"
    /\ cmu' = RLockAdd(cmu)
    /\ pc' = [pc EXCEPT ![p].at = IF RLockBlocks(cmu) THEN "crwait" ELSE "deleg"]
    /\ UNCHANGED <<l, mu, now, crashed, touched, opt, c, h>>

CRLockWake(p) ==
    /\ Running /\ pc[p].at = "crwait" /\ cmu.readerSem > 0
    /\ cmu' = [cmu EXCEPT !.readerSem = @ - 1]
    /\ pc' = [pc EXCEPT ![p].at = "deleg"]
    /\ UNCHANGED <<l, mu, now, crashed, touched, opt, c, h>>

\* only an expiration time in the past is turned away
RejectedBefore(expiration) == expiration < 0

\* AddWithExpiration, line 119: expiration <= 0
Rejected(expiration) == expiration <= 0

\* AddWithExpiration, lines 118-122: expiration := time.Until(expirationTime)
Until(p, expirationTime) ==
    /\ Running /\ pc[p].at = "until"
    /\ pc' = [pc EXCEPT ![p].ttl = expirationTime - now,
                        ![p].at = IF Rejected(expirationTime - now)
                                  THEN "ret" ELSE "deleg"]
    /\ UNCHANGED <<l, mu, now, crashed, touched, outer>>

\* the engine operation a facade function delegates to
EngineOp(fn) ==
    CASE fn = "Get" -> [op |-> "Get", at |-> "read"]
      [] fn \in {"Add", "AddWithExpiration"} -> [op |-> "Set", at |-> "lock"]
      [] fn = "Delete" -> [op |-> "Delete", at |-> "lock"]
      [] fn = "Clear" -> [op |-> "Clear", at |-> "lock"]
      [] fn \in {"Len", "Stats"} -> [op |-> "Len", at |-> "rlock"]

\* c.store.Get 85, c.store.Set 108, c.store.SetWithExpiration 123,
\* c.store.Delete 137, c.store.Clear 155, c.store.Len 171: the call of a
\* method through the interface value c.store, nil once Close has released it
Delegate(p, key, value) ==
    /\ Running /\ pc[p].at = "deleg"
    /\ IF c.store = 0
       THEN /\ crashed' = "panic: runtime error: invalid memory address or nil pointer dereference"
            /\ UNCHANGED pc
       ELSE /\ pc' = [pc EXCEPT ![p] =
                        [@ EXCEPT !.op = EngineOp(pc[p].fn).op,
                                  !.at = EngineOp(pc[p].fn).at,
                                  !.key = IF pc[p].fn \in {"Get", "Add", "AddWithExpiration", "Delete"}
                                          THEN key ELSE NoKey,
                                  !.value = IF pc[p].fn \in {"Add", "AddWithExpiration"}
                                            THEN value ELSE Nil,
                                  !.inst = c.store]]
            /\ UNCHANGED crashed
    /\ UNCHANGED <<l, mu, now, touched, outer>>

\* a Clear that leaves the two counters alone
KeepStatistics(cache) == cache

\* Clear, lines 157-158: hits and misses are stored as 0
ResetStatistics(cache) == [cache EXCEPT !.hits = 0, !.misses = 0]

\* what follows the engine's return: Get 86-97 with the deferred RUnlock,
\* Delete 138-143, Len 172-173, Clear 156-159 with the deferred Unlock,
\* Add 108-111, AddWithExpiration 123-126, Close 187-191
Back(p) ==
    /\ Running /\ pc[p].at = "back"
    /\ pc' = [pc EXCEPT ![p] =
                [@ EXCEPT !.at = "ret", !.op = "none",
                          !.res.stats.size = pc[p].res.n,
                          !.res.value = IF pc[p].fn = "Get" /\ ~pc[p].res.ok
                                        THEN ByteView(<< >>) ELSE pc[p].res.value,
                          !.res.expired = {}, !.res.victims = {},
                          !.res.order = << >>, !.res.before = EmptyMap]]
    /\ c' = CASE pc[p].fn = "Get" /\ pc[p].res.ok -> [c EXCEPT !.hits = @ + 1]
              [] pc[p].fn = "Get" /\ ~pc[p].res.ok -> [c EXCEPT !.misses = @ + 1]
              [] pc[p].fn = "Clear" -> ResetStatistics(c)
              [] pc[p].fn = "Close" -> [c EXCEPT !.store = 0, !.initialized = 0]
              [] OTHER -> c
    /\ cmu' = CASE pc[p].fn \in {"Get", "Delete", "Len", "Stats"} -> RUnlockSub(cmu)
                [] pc[p].fn \in {"Clear", "Close"} -> UnlockAdd(cmu)
                [] OTHER -> cmu
    /\ h' = IF pc[p].fn = "Clear" THEN [h EXCEPT !.cleared = TRUE] ELSE h
    /\ UNCHANGED <<l, mu, now, crashed, touched, opt>>

\* the function returns to its caller
Return(p) ==
    /\ Running /\ pc[p].at = "ret"
    /\ pc' = [pc EXCEPT ![p] = Idle]
    /\ h' = CASE pc[p].fn = "Close" -> [h EXCEPT !.closeReturned = TRUE]
              [] pc[p].fn = "Get" ->
                    [h EXCEPT !.gets = @ + 1,
                              !.found = @ + (IF pc[p].res.ok THEN 1 ELSE 0)]
              [] OTHER -> h
    /\ UNCHANGED <<l, mu, now, crashed, touched, opt, c, cmu>>

\* a swap that succeeds whatever the flag holds
SwapsAlways(cache) == TRUE

\* Close, line 177: CompareAndSwapInt32(&c.closed, 0, 1) succeeds
Swaps(cache) == cache.closed = 0

\* Close, line 177: CompareAndSwapInt32(&c.closed, 0, 1)
\* res.ok records, as history, that this call made the transition
CloseCAS(p) ==
    /\ Running /\ pc[p].at = "cas"
    /\ IF Swaps(c)
       THEN /\ c' = [c EXCEPT !.closed = 1]
            /\ h' = [h EXCEPT !.closes = @ + 1]
            /\ pc' = [pc EXCEPT ![p].at = "closelock", ![p].res.ok = TRUE]
       ELSE /\ pc' = [pc EXCEPT ![p].at = "ret"]
            /\ UNCHANGED <<c, h>>
    /\ UNCHANGED <<l, mu, now, crashed, touched, opt, cmu>>

\* Close, lines 185-186: the store, when there is one, is closed first
CloseStore(p) ==
    /\ Running /\ pc[p].at = "closebody"
    /\ pc' = [pc EXCEPT ![p] =
                IF c.store # 0
                THEN [@ EXCEPT !.op = "Close", !.at = "lock", !.inst = c.store]
                ELSE [@ EXCEPT !.at = "back"]]
    /\ UNCHANGED <<l, mu, now, crashed, touched, outer>>

\* lRUStore.Close, lines 139-142: closing a closed channel panics
CloseBody(p) ==
    /\ Running /\ pc[p].op = "Close" /\ pc[p].at = "body"
    /\ IF l.closeCh = "closed"
       THEN /\ crashed' = "panic: close of closed channel"
            /\ UNCHANGED <<l, pc>>
       ELSE /\ l' = [l EXCEPT !.ticker = "stopped", !.closeCh = "closed"]
            /\ pc' = [pc EXCEPT ![p].at = "unlock"]
            /\ UNCHANGED crashed
    /\ UNCHANGED <<mu, now, touched, outer>>

\* Stats, lines 196-199: the four atomic loads; c.Len() follows (line 200)
StatsLoad(p) ==
    /\ Running /\ pc[p].at = "stats"
    /\ pc' = [pc EXCEPT ![p].at = "open?",
                        ![p].res.stats = [initialized |-> c.initialized = 1,
                                          closed |-> c.closed = 1,
                                          hits |-> c.hits, misses |-> c.misses,
                                          size |-> 0,
                                          hit_rate |-> HitRate(c.hits, c.misses)]]
    /\ UNCHANGED <<l, mu, now, crashed, touched, outer>>

(***************************************************************************)
(* Specifications.  Each draws its callers and inputs from its own sets.   *)
(***************************************************************************)
\* Get by p, no other goroutine writing the index meanwhile
GetAlone(p, K) ==
    \/ CallGet(p)
    \/ \E k \in K : GetRead(p, k)
    \/ RUnlock(p)
    \/ Lock(p) \/ LockWake(p)
    \/ GetMove(p)
    \/ Unlock(p)

\* Get by p
GetOp(p, K) ==
    \/ CallGet(p)
    \/ \E k \in K : GetRead(p, k)
    \/ GetReadRace(p)
    \/ RUnlock(p)
    \/ Lock(p) \/ LockWake(p)
    \/ GetMove(p)
    \/ Unlock(p)

\* a Get that follows the caller's own Set or Clear
GetAfter(p, K) ==
    \/ GetAfterSet(p)
    \/ \E k \in K : GetAfterClear(p, k)

\* Set, SetWithExpiration, Delete and Clear by p
WriteOp(p, K, V, T) ==
    \/ CallWrite(p)
    \/ Lock(p) \/ LockWake(p)
    \/ \E k \in K, v \in V, t \in T : SetBody(p, k, v, t)
    \/ \E k \in K, viaSet \in BOOLEAN : DeleteBody(p, k, viaSet)
    \/ ClearBody(p)
    \/ Unlock(p)

\* Len by p
LenOp(p) ==
    \/ CallLen(p)
    \/ RLock(p) \/ RLockWake(p)
    \/ LenBody(p)
    \/ RUnlock(p)

\* the background sweep
SweepOp ==
    \/ GoCleanupStore
    \/ CleanupTick
    \/ Lock(Sweeper) \/ LockWake(Sweeper)
    \/ CleanupBody(Sweeper)
    \/ Unlock(Sweeper)

\* The engine under Set, SetWithExpiration, Delete, Clear, Len and the sweep.
WKeys == {"a", "b"}
WValues == {V1, V2}
WTTLs == {-1, 0, 1}
WBudgets == {0, 1, 2}

InitWriters == InitWith({Options(b, TRUE) : b \in WBudgets})

NextWriters ==
    \/ WriteOp("p1", WKeys, WValues, WTTLs)
    \/ LenOp("p2")
    \/ SweepOp
    \/ Tick

SpecWriters == InitWriters /\ [][NextWriters]_vars

\* The engine under concurrent callers of every operation, TTLs included.
CKeys == {"a"}
CValues == {V1, V2}
CTTLs == {0, 1}
CBudgets == {0, 2}

Init == InitWith({Options(b, TRUE) : b \in CBudgets})

Next ==
    \/ GetOp("p1", CKeys) \/ GetAfter("p1", CKeys)
    \/ WriteOp("p1", CKeys, CValues, CTTLs)
    \/ GetOp("p2", CKeys)
    \/ WriteOp("p2", CKeys, CValues, CTTLs)
    \/ LenOp("p3")
    \/ Tick

Spec == Init /\ [][Next]_vars

\* The facade: two callers of every function of a Cache.
FKeys == {"a"}
FValues == {V1}
FTimes == {0, 1}
FBudgets == {0}
Fns == {"Get", "Add", "AddWithExpiration", "Delete", "Clear", "Len", "Close", "Stats"}

InitFacade == InitWith({Options(b, TRUE) : b \in FBudgets})

\* a call of the facade by p
FacadeOp(p, F, K, V, T) ==
    \/ \E fn \in F : CallFacade(p, fn)
    \/ OpenedAndInitialized(p) \/ ClosedOrUninitialized(p)
    \/ InitFastPath(p) \/ CLock(p) \/ CLockWake(p) \/ InitBody(p)
    \/ CRLock(p) \/ CRLockWake(p)
    \/ \E t \in T : Until(p, t)
    \/ \E k \in K, v \in V : Delegate(p, k, v)
    \/ \E k \in K : GetRead(p, k)
    \/ GetReadRace(p)
    \/ RUnlock(p) \/ Lock(p) \/ LockWake(p) \/ GetMove(p) \/ Unlock(p)
    \/ \E k \in K, v \in V, t \in 0..MaxTime : SetBody(p, k, v, t)
    \/ \E k \in K : DeleteBody(p, k, FALSE)
    \/ ClearBody(p)
    \/ RLock(p) \/ RLockWake(p) \/ LenBody(p)
    \/ CloseCAS(p) \/ CloseStore(p) \/ CloseBody(p) \/ StatsLoad(p)
    \/ Back(p) \/ Return(p)

NextFacade ==
    \/ FacadeOp("p1", Fns, FKeys, FValues, FTimes)
    \/ FacadeOp("p2", Fns, FKeys, FValues, FTimes)
    \/ Tick

SpecFacade == InitFacade /\ [][NextFacade]_vars

\* The facade with three goroutines, each with its own calls: one that
\* clears and reads the statistics, one that adds, reads and deletes, and one
\* that closes the Cache and reads from it afterwards.  The clock stands still.
SFnsClear == {"Add", "Clear", "Stats"}
SFnsAdd == {"Add", "AddWithExpiration", "Get", "Delete"}
SFnsClose == {"Close", "Get"}
SKeys == {"a"}
SValues == {V1}
STimes == {1}

NextStats ==
    \/ FacadeOp("p1", SFnsClear, SKeys, SValues, STimes)
    \/ FacadeOp("p2", SFnsAdd, SKeys, SValues, STimes)
    \/ FacadeOp("p3", SFnsClose, SKeys, SValues, STimes)

SpecStats == InitFacade /\ [][NextStats]_vars

\* The engine with no TTL in play: a budget of 20 bytes, values of 10 and 5.
LKeys == {"a", "b", "c"}
LValues == {V10, V5}
LBudgets == {20}

InitLRU == InitWith({Options(b, TRUE) : b \in LBudgets})

NextLRU ==
    \/ GetAlone("p1", LKeys)
    \/ WriteOp("p1", LKeys, LValues, {0})
    \/ LenOp("p2")

SpecLRU == InitLRU /\ [][NextLRU]_vars

\* The engine as newLRUStore builds it, which starts no goroutine: callers of
\* Get, Set, SetWithExpiration, Delete, Clear and Len, and the clock.  A call
\* that has started runs on (the scheduler is fair to runnable goroutines)
\* and time passes; callers need not call again.
TKeys == {"a"}
TValues == {V1}
TTTLs == {0, 1}
TBudgets == {0, 2}

InitLive == InitWith({Options(b, TRUE) : b \in TBudgets})

NextLive ==
    \/ GetAlone("p1", TKeys) \/ GetAfter("p1", TKeys)
    \/ WriteOp("p1", TKeys, TValues, TTTLs)
    \/ LenOp("p2")
    \/ Tick

\* the steps of a call in progress
StepsLive(p) ==
       \/ \E k \in TKeys : GetRead(p, k)
       \/ RUnlock(p) \/ Lock(p) \/ LockWake(p) \/ GetMove(p) \/ Unlock(p)
       \/ \E k \in TKeys, v \in TValues, t \in TTTLs : SetBody(p, k, v, t)
       \/ \E k \in TKeys, viaSet \in BOOLEAN : DeleteBody(p, k, viaSet)
       \/ ClearBody(p)
       \/ RLock(p) \/ RLockWake(p) \/ LenBody(p)

SpecLive ==
    /\ InitLive /\ [][NextLive]_vars
    /\ WF_vars(StepsLive("p1")) /\ WF_vars(StepsLive("p2")) /\ WF_vars(Tick)

(***************************************************************************)
(* Claims.                                                                 *)
(***************************************************************************)
RECURSIVE SumLen(_, _)
SumLen(x, es) ==
    IF es = << >> THEN 0 ELSE ValLen(x.entry[Head(es)].value) + SumLen(x, Tail(es))

\* the bytes of the entries linked in the recency structure
LinkedBytes(x) == SumLen(x, Linked(x.list))

\* C1: under Set, SetWithExpiration, Delete, Clear and eviction passes the
\* used-bytes counter equals the sum of value.Len() over the entries in the
\* recency structure; it is 0 when the structure is empty and never negative.
C1_Accounting ==
    /\ l.usedBytes = LinkedBytes(l)
    /\ l.usedBytes >= 0
    /\ l.list.len = 0 => l.usedBytes = 0

\* a Set whose capacity pass evicted another entry and kept bytes in use
C1_Witness ==
    \E p \in Callers :
       /\ pc[p].op = "Set" /\ pc[p].at = "unlock"
       /\ pc[p].res.victims # {}
       /\ l.usedBytes > 0

\* C2: with maxBytes > 0 the used-bytes counter never exceeds maxBytes once an
\* operation's critical section has run; a value larger than maxBytes is
\* removed by the eviction pass of the Set that inserted it; with maxBytes = 0
\* the capacity pass evicts nothing.
C2_CapacityBound ==
    /\ l.maxBytes > 0 => l.usedBytes <= l.maxBytes
    /\ \A p \in Procs :
          /\ ( /\ pc[p].op = "Set" /\ pc[p].at = "unlock"
               /\ pc[p].value # Nil
               /\ l.maxBytes > 0 /\ ValLen(pc[p].value) > l.maxBytes )
             => <<pc[p].key, pc[p].value>> \in pc[p].res.victims \cup pc[p].res.expired
          /\ l.maxBytes = 0 => pc[p].res.victims = {} \/ pc[p].op = "Clear"

\* a Set that stored a value larger than the budget and evicted it at once
C2_Witness ==
    \E p \in Callers :
       /\ pc[p].op = "Set" /\ pc[p].at = "unlock"
       /\ l.maxBytes > 0 /\ ValLen(pc[p].value) > l.maxBytes
       /\ <<pc[p].key, pc[p].value>> \in pc[p].res.victims
       /\ pc[p].key \notin DOMAIN l.items

\* the keys of the last n entries of the touch order ord
Oldest(ord, n) == {ord[i] : i \in (Len(ord) - n + 1)..Len(ord)}

\* C3: with no TTL in play the capacity pass removes only the least recently
\* touched live entries, a touch being an insert, an update or a Get that
\* found its key: such a Get goes on to promote the key, so the process is
\* still running while and after it does.
C3_LRUOrder ==
    \A p \in Callers :
       /\ (pc[p].op = "Set" /\ pc[p].at = "unlock")
          => {kv[1] : kv \in pc[p].res.victims}
               = Oldest(pc[p].res.order, Cardinality(pc[p].res.victims))
       /\ (pc[p].op = "Get" /\ pc[p].res.ok) => Running

\* budget 20: Set a (10 bytes), Set b (10 bytes), Set c (5 bytes) leaves b and
\* c with 15 bytes in use
C3_Witness ==
    \E p \in Callers :
       /\ pc[p].op = "Set" /\ pc[p].at = "unlock" /\ l.maxBytes = 20
       /\ pc[p].key = "c" /\ pc[p].value = V5
       /\ pc[p].res.order = <<"c", "b", "a">>
       /\ pc[p].res.victims = {<<"a", V10>>}
       /\ Pairs(l) = {<<"b", V10>>, <<"c", V5>>}
       /\ l.usedBytes = 15

\* C4: Set(k, v) with a non-nil v that stays within the budget, followed at
\* once by Get(k) with no operation of any caller in between, returns
\* (v, true), for a fresh key and for a key stored before, with a TTL or not.
C4_RoundTrip ==
    \A p \in Callers :
       /\ ( /\ pc[p].op = "Set" /\ pc[p].at = "unlock"
            /\ pc[p].alone /\ pc[p].res.victims = {} )
          => /\ pc[p].key \in DOMAIN l.items
             /\ l.entry[l.items[pc[p].key]].value = pc[p].value
       /\ pc[p].expect = "hit"
          => /\ Running
             /\ pc[p].at # "read" => pc[p].res.ok /\ pc[p].res.value = pc[p].value

\* a Set without TTL, within the budget, on a key whose earlier TTL has
\* passed: its own expiration pass removes the entry it has just stored
C4_Witness ==
    \E p \in Callers :
       /\ pc[p].op = "Set" /\ pc[p].at = "unlock" /\ pc[p].ttl = 0
       /\ pc[p].alone /\ pc[p].res.victims = {}
       /\ <<pc[p].key, pc[p].value>> \in pc[p].res.expired
       /\ pc[p].key \notin DOMAIN l.items

\* C5: an entry whose TTL has elapsed is eventually removed from a running
\* engine (or replaced by an entry that has not expired), so that Get reports
\* not-found, also when no caller issues a further mutating operation.
C5_Expiry ==
    \A k \in TKeys :
       (Running /\ k \in DOMAIN l.items /\ k \in Expired(l, now))
          ~> (~Running \/ k \notin DOMAIN l.items \/ k \notin Expired(l, now))

\* an entry whose TTL has elapsed and that is still indexed, no call in progress
C5_Witness ==
    /\ Running /\ \A p \in Procs : pc[p].at = "idle"
    /\ \E k \in TKeys : k \in DOMAIN l.items /\ k \in Expired(l, now)

\* C6: when Clear has run its critical section the length, the used-bytes
\* counter, the index and the expiration table are empty, a lone Clear leaves
\* the engine as newLRUStore builds it, and a Get that follows at once for a
\* key live before the Clear reports not-found.
C6_ClearResets ==
    \A p \in Callers :
       /\ (pc[p].op = "Clear" /\ pc[p].at = "unlock")
          => /\ l.list.len = 0 /\ l.usedBytes = 0
             /\ DOMAIN l.items = {} /\ DOMAIN l.expires = {}
             /\ pc[p].alone => l = newLRUStore(opt)
       /\ pc[p].expect = "miss"
          => /\ Running
             /\ pc[p].at # "read" => ~pc[p].res.ok

\* a Clear that removed a live entry and left the engine empty
C6_Witness ==
    \E p \in Callers :
       /\ pc[p].op = "Clear" /\ pc[p].at = "unlock" /\ pc[p].alone
       /\ pc[p].res.victims # {}
       /\ l = newLRUStore(opt)

\* C7: with a callback configured, the entries an operation destroyed by
\* expiry, by capacity eviction or by Clear are exactly the entries the
\* callback was invoked for, once each.
C7_Notification ==
    \A p \in Procs :
       opt.OnEvicted => pc[p].res.callbacks = pc[p].res.expired \cup pc[p].res.victims

\* a Set whose capacity pass destroyed an entry, a callback being configured
C7_Witness ==
    \E p \in Callers :
       /\ opt.OnEvicted /\ pc[p].op = "Set" /\ pc[p].at = "unlock"
       /\ pc[p].res.victims # {} /\ pc[p].res.callbacks = {}

\* the entry checks of the facade's functions, where no lock is held and no
\* store is used, and the return
AtEntry == {"open?", "cas", "stats", "ret"}

\* C8: a call that starts after the facade's Close has returned stays in its
\* entry check, so it takes no lock and reaches no store, and returns the
\* failure outcome: Get (empty ByteView, false), Delete false, Len 0, Stats
\* closed with size 0; Add, AddWithExpiration and Clear do nothing.
C8_ClosedFacade ==
    \A p \in Callers :
       pc[p].late =>
          /\ pc[p].at \in AtEntry
          /\ pc[p].at = "ret" =>
                /\ ~pc[p].res.ok /\ pc[p].res.n = 0
                /\ pc[p].fn = "Get" => pc[p].res.value = ByteView(<< >>)
                /\ pc[p].fn = "Stats" => pc[p].res.stats.closed /\ pc[p].res.stats.size = 0

\* a Len that starts after Close has returned and returns 0 although a store
\* is in place again
C8_Witness ==
    \E p \in Callers :
       /\ pc[p].late /\ pc[p].fn = "Len" /\ pc[p].at = "ret"
       /\ c.store # 0 /\ c.initialized = 1

\* the positions of Get, Add and AddWithExpiration before ensureCacheInitialized
\* has returned
BeforeInit == {"idle", "open?", "init?", "initlock", "cwait", "initbody", "ret"}

\* C9: on a Cache that was never closed at most one store is constructed, the
\* store reference is assigned exactly when the initialized flag is set, every
\* call that has gone through ensureCacheInitialized finds that one store and
\* delegates to it, and no call goes through a nil store reference.
C9_InitOnce ==
    c.closed = 0 =>
       /\ h.built <= 1
       /\ c.store = h.built /\ c.initialized = h.built
       /\ \A p \in Callers :
             /\ (pc[p].fn \in Initializing /\ pc[p].at \notin BeforeInit)
                => h.built = 1 /\ c.store = 1
             /\ pc[p].op # "none" => pc[p].inst = 1
       /\ crashed # "panic: runtime error: invalid memory address or nil pointer dereference"

\* two first callers: one has built the store, the other holds c.mu for the
\* second check
C9_Witness ==
    /\ c.closed = 0 /\ h.built = 1
    /\ \E p, q \in Callers :
          /\ pc[p].at = "initbody"
          /\ pc[q].op # "none" /\ pc[q].inst = 1

\* the facade Gets that have counted and not yet returned
Counted(found) ==
    Cardinality({p \in Callers : /\ pc[p].fn = "Get" /\ pc[p].at = "ret"
                                 /\ (found => pc[p].res.ok)})

\* C10: every facade Get counts exactly once, a hit when it returns found =
\* true and a miss otherwise: a Get that has its answer from the store goes on
\* to count it, and while no Clear has reset the counters hits + misses is the
\* number of Gets that have counted and hits the number of those that found.
C10_HitMiss ==
    /\ \A p \in Callers : (pc[p].fn = "Get" /\ pc[p].at = "runlock") => Running
    /\ ~h.cleared =>
          /\ c.hits + c.misses = h.gets + Counted(FALSE)
          /\ c.hits = h.found + Counted(TRUE)

\* a facade Get that found its key in the store
C10_Witness ==
    \E p \in Callers :
       pc[p].fn = "Get" /\ pc[p].at = "runlock" /\ pc[p].res.ok

\* C11: AddWithExpiration with an expiration time at or before the current
\* time returns without calling the store: the step that reads the clock
\* leaves the store's entries, recency order, expiration table and used-bytes
\* counter as they are, and only a positive duration goes on to the store.
C11_RejectPast ==
    [][\A p \in Callers :
          (pc[p].at = "until" /\ pc'[p].at # "until")
             => IF pc'[p].ttl <= 0
                THEN pc'[p].at = "ret" /\ l' = l /\ touched' = touched
                ELSE pc'[p].at = "deleg"]_vars

\* an AddWithExpiration turned away for a time in the past, an entry being
\* in the store
C11_Witness ==
    \E p \in Callers :
       /\ pc[p].fn = "AddWithExpiration" /\ pc[p].at = "ret" /\ pc[p].ttl < 0
       /\ c.store # 0 /\ DOMAIN l.items # {}

\* C12: of all Close calls on one Cache exactly one makes the open-to-closed
\* transition; only that one goes on to the lock and the store, a store
\* instance's close channel is never closed twice, and every other Close
\* returns from its entry check.
C12_CloseOnce ==
    /\ h.closes = c.closed
    /\ Cardinality({p \in Callers : pc[p].fn = "Close" /\ pc[p].res.ok}) <= 1
    /\ \A p \in Callers :
          (pc[p].fn = "Close" /\ ~pc[p].res.ok) => pc[p].at \in {"cas", "ret"}
    /\ crashed # "panic: close of closed channel"

\* two Close calls: one has closed the store's channel, the other has
\* returned from its entry check
C12_Witness ==
    \E p, q \in Callers :
       /\ pc[p].fn = "Close" /\ pc[p].res.ok /\ pc[p].at = "unlock"
       /\ l.closeCh = "closed"
       /\ pc[q].fn = "Close" /\ ~pc[q].res.ok /\ pc[q].at = "ret"

\* C13: on a Cache that was never closed, when Get, Add, AddWithExpiration,
\* Delete, Clear or Len has run to its return the store is initialized.
C13_EnsuresInit ==
    \A p \in Callers :
       ( /\ c.closed = 0 /\ pc[p].at = "ret"
         /\ pc[p].fn \in Initializing \cup {"Delete", "Clear", "Len"} )
          => c.initialized = 1 /\ c.store # 0

\* Len as the first call on a fresh Cache returns 0 and no store was built
C13_Witness ==
    \E p \in Callers :
       /\ pc[p].fn = "Len" /\ pc[p].at = "ret" /\ pc[p].res.n = 0
       /\ c.closed = 0 /\ c.initialized = 0 /\ h.built = 0

\* the elements linked in the ring, as a set
Ring(x) == {Linked(x.list)[i] : i \in 1..Len(Linked(x.list))}

\* some goroutine is inside a critical section of the engine's write lock
LockHeld == \E p \in Procs : pc[p].at \in {"body", "unlock"}

\* C14: whenever no operation holds the lock, the indexed keys and the linked
\* elements correspond one to one: the index maps each key to a linked element
\* carrying that key, every linked element is the one the index holds for its
\* key, and the list's length is the number of indexed keys.
C14_Structure ==
    (Running /\ ~LockHeld) =>
       /\ \A k \in DOMAIN l.items :
             l.items[k] \in Ring(l) /\ l.entry[l.items[k]].key = k
       /\ \A e \in Ring(l) :
             l.entry[e].key \in DOMAIN l.items /\ l.items[l.entry[e].key] = e
       /\ l.list.len = Cardinality(DOMAIN l.items)
       /\ l.list.len = Len(Linked(l.list))

\* a Get's second critical section has linked an element that a Clear had
\* dropped, in place of the element the index holds
C14_Witness ==
    /\ Running /\ ~LockHeld
    /\ \E k \in DOMAIN l.items : l.items[k] \notin Ring(l)
    /\ \E e \in Ring(l) : l.entry[e].key \in DOMAIN l.items /\ l.items[l.entry[e].key] # e

\* C15: while no operation holds the lock, every key of the expiration table
\* is a key of the index: Delete, the capacity pass, the expiration pass and
\* Clear drop the key's expiration record together with its entry, so a key
\* that comes back without a TTL finds no old record.
C15_NoDangling ==
    (Running /\ ~LockHeld) => DOMAIN l.expires \subseteq DOMAIN l.items

\* a Delete has just removed an entry that had an expiration record, and the
\* record went with it
C15_Witness ==
    \E p \in Procs :
       /\ pc[p].op = "Delete" /\ pc[p].at = "unlock" /\ pc[p].res.ok
       /\ pc[p].key \in DOMAIN pc[p].res.before
       /\ pc[p].key \notin DOMAIN l.items
       /\ pc[p].key \notin DOMAIN l.expires

\* C16: a Set whose TTL is zero or negative does not write the expiration
\* table: an existing key keeps the record it had (or keeps having none), a
\* fresh key gets none, and the entry leaves in the same call only through
\* the record it already had or through the capacity pass.
C16_NoStamp ==
    \A p \in Procs :
       (pc[p].op = "Set" /\ pc[p].at = "unlock" /\ pc[p].ttl <= 0)
          => LET k == pc[p].key
                 before == pc[p].res.before
             IN /\ \A j \in DOMAIN l.expires :
                      j \in DOMAIN before /\ l.expires[j] = before[j]
                /\ (k \in DOMAIN before /\ k \in DOMAIN l.items)
                      => k \in DOMAIN l.expires
                /\ (\E v \in pc[p].res.expired : v[1] = k)
                      => k \in DOMAIN before

\* a Set with a non-positive TTL overwrote a key whose expiration record is
\* still in the table, unchanged
C16_Witness ==
    \E p \in Procs :
       /\ pc[p].op = "Set" /\ pc[p].at = "unlock" /\ pc[p].ttl < 0
       /\ pc[p].key \in DOMAIN l.expires
       /\ pc[p].key \in DOMAIN pc[p].res.before
       /\ l.expires[pc[p].key] = pc[p].res.before[pc[p].key]

\* C17: once a Close has returned the store reference stays nil and the
\* initialized flag stays 0, whatever calls were in flight, and over the whole
\* life of the Cache at most one store is constructed.
C17_NoReinit ==
    /\ h.closeReturned => c.store = 0 /\ c.initialized = 0
    /\ h.built <= 1

\* Close has returned, and a Get that had passed its closed check before the
\* Close is back from ensureCacheInitialized with a newly constructed store
C17_Witness ==
    \E p \in Callers :
       /\ h.closeReturned /\ c.closed = 1
       /\ pc[p].fn = "Get" /\ ~pc[p].late /\ pc[p].at = "crlock"
       /\ c.store = 1 /\ c.initialized = 1 /\ h.built = 1

\* C18: no call reaches a method of the store through a nil reference, however
\* Close interleaves with the other calls.
C18_NoNilStore ==
    crashed # "panic: runtime error: invalid memory address or nil pointer dereference"

\* a call has passed its entry check on an open Cache and stands before its
\* c.store call when the concurrent Close has set the reference to nil
C18_Witness ==
    \E p \in Callers :
       /\ Running /\ pc[p].at = "deleg" /\ ~pc[p].late
       /\ c.closed = 1 /\ c.store = 0 /\ h.built = 1

\* the readers the RWMutex counts (a pending writer has subtracted
\* rwmutexMaxReaders from readerCount)
Readers ==
    IF mu.readerCount < 0 THEN mu.readerCount + rwmutexMaxReaders ELSE mu.readerCount

\* C19: every operation that has read under the read lock and is about to
\* RUnlock is counted as a reader by the RWMutex, so Get's reads happen with
\* the lock held, and no RUnlock or Unlock finds the lock not held.
C19_LockDiscipline ==
    /\ Cardinality({p \in Procs : pc[p].at \in {"rbody", "runlock"}}) <= Readers
    /\ crashed # "fatal error: sync: RUnlock of unlocked RWMutex"
    /\ crashed # "fatal error: sync: Unlock of unlocked RWMutex"

\* a Get has read the index, alone, with no reader counted, and its RUnlock
\* is the next statement
C19_Witness ==
    \E p \in Callers :
       /\ Running /\ pc[p].op = "Get" /\ pc[p].at = "runlock"
       /\ OthersIdle(p) /\ Readers = 0 /\ RUnlockFatal(mu)

\* C20: a Clear that finds the Cache open and initialized goes on to the
\* store, whose Clear empties the index and the byte counter, and stores 0 in
\* hits and misses before it returns; a Clear that finds the Cache closed or
\* not initialized returns from its entry check and changes neither the
\* counters nor the store; Stats computed from hits = 0 and misses = 0 reports
\* a hit rate of 0.
C20_ClearStatistics ==
    [][\A p \in Callers :
          /\ (pc[p].fn = "Clear" /\ pc[p].at = "open?" /\ pc'[p].at # "open?")
                => IF c.closed = 1 \/ c.initialized = 0
                   THEN pc'[p].at = "ret" /\ c' = c /\ l' = l
                   ELSE pc'[p].at = "clock"
          /\ (pc[p].fn = "Clear" /\ pc[p].at = "body" /\ pc'[p].at = "unlock")
                => l'.items = EmptyMap /\ l'.expires = EmptyMap /\ l'.usedBytes = 0
          /\ (pc[p].fn = "Clear" /\ pc[p].at = "back" /\ pc'[p].at = "ret")
                => c'.hits = 0 /\ c'.misses = 0
          /\ (pc[p].fn = "Stats" /\ pc[p].at = "stats" /\ pc'[p].at # "stats"
                 /\ c.hits = 0 /\ c.misses = 0)
                => /\ pc'[p].res.stats.hits = 0 /\ pc'[p].res.stats.misses = 0
                   /\ pc'[p].res.stats.hit_rate = <<0, 1>>]_vars

\* a Clear that found the Cache open and initialized and went through the
\* store is about to return after a Get was counted: both counters are 0 and
\* the store is empty
C20_Witness ==
    \E p \in Callers :
       /\ pc[p].fn = "Clear" /\ pc[p].at = "ret" /\ pc[p].inst # 0
       /\ h.cleared /\ h.gets > 0
       /\ c.initialized = 1 /\ c.store # 0
       /\ c.hits = 0 /\ c.misses = 0 /\ l.items = EmptyMap

====
